---- MODULE Spec2Model ----
(***************************************************************************)
(* The Feishu (Lark) bot MCP server, mcp-lark-bot/server.py: the recipient *)
(* resolvers, the text / rich / file dispatch entry points and the lazily  *)
(* initialised global bot handle.                                          *)
(*                                                                         *)
(* The server is synchronous: one tool call runs to its end before the     *)
(* next begins.  Each tool is one action; the collaborator (pywayne's      *)
(* LarkBot) is a black box whose answers during the call are drawn with \E *)
(* and kept in `collab`; every call the handler makes on it is appended to *)
(* `calls`, in order.  Python dicts are records [tag, val, name]; a text   *)
(* is a sequence of tokens, each token a tuple of strings.                 *)
(***************************************************************************)
EXTENDS Naturals, Sequences, FiniteSets, TLC

VARIABLES
    bot,      \* the module-level handle: "None" or "Bot"
    env,      \* LARK_APP_ID and LARK_APP_SECRET are both set and non-empty
    pc,       \* "idle": waiting for a tool call; "done": a call has just ended
    op,       \* the tool that ran last
    args,     \* its arguments
    collab,   \* what the collaborator answered during the call
    calls,    \* the collaborator operations the call invoked, in order
    result    \* what the call returned, or the fault it ended with

vars == <<bot, env, pc, op, args, collab, calls, result>>

-----------------------------------------------------------------------------
(* Bounds of the model *)

\* longest at_members list
MaxMembers == 2
\* longest content_elements list
MaxElements == 2
\* longest attendees list
MaxAttendees == 2

-----------------------------------------------------------------------------
(* Input domains *)

Mobiles == {"", "13800000000"}
Emails == {"", "a@x.com"}
GroupNames == {"", "Eng"}
MemberNames == {"Alice", "Bob"}
Messages == {<< <<"D">>, <<"n">> >>}
CompanionMessages == {<<>>, << <<"s">>, <<"e">>, <<"e">> >>}
FilePaths == {"/tmp/f"}
RecognisedFileTypes == {"stream", "opus", "mp4", "pdf", "doc", "xls", "ppt", "image"}
FileTypes == RecognisedFileTypes \cup {"zip"}

RECURSIVE SeqsUpTo(_, _)
SeqsUpTo(S, n) ==
    IF n = 0 THEN {<<>>}
    ELSE LET shorter == SeqsUpTo(S, n - 1)
         IN  shorter \cup {Append(s, x) : s \in shorter, x \in S}

-----------------------------------------------------------------------------
(* Python values *)

Dict(tag, val, name) == [tag |-> tag, val |-> val, name |-> name]
\* {}
EmptyDict == Dict("empty", "", "")
\* {"error": reason}
ErrorDict(reason) == Dict("error", reason, "")
\* an element of get_user_info's list: it has "user_id"
UserDict(user_id) == Dict("user", user_id, "")
\* {"chat_id": .., "name": .., "members": ..}
GroupDict(chat_id, name) == Dict("group", chat_id, name)
\* {"name": .., "open_id": ..}
MemberDict(name, open_id) == Dict("member", open_id, name)
\* {"status": .., "message": ..}
StatusDict(status) == Dict("status", status, "")
\* the payload a collaborator send returned
SentDict(payload) == Dict("sent", payload, "")
\* an exception leaving the handler
Fault(exc) == Dict("raise", exc, "")
\* a bool returned by a helper
BoolVal(b) == Dict("bool", IF b THEN "True" ELSE "False", "")
NoResult == Dict("none", "", "")

\* a check for the "error" key in place of the check for emptiness
TruthyUnlessError(d) == d.tag # "error"

\* `if d:` on a dict: any non-empty dict, {"error": ..} included
Truthy(d) == d.tag # "empty"
IsFault(d) == d.tag = "raise"

NotInitializedReason == "bot not initialized"

-----------------------------------------------------------------------------
(* TextContent patterns: tokens of the outgoing text *)

Sp == <<" ">>
make_at_all_pattern == << <<"at", "all", "">> >>
make_at_someone_pattern(open_id, name, id_type) == << <<"at", open_id, name>> >>
make_bold_pattern(text) == << <<"<b>">> >> \o text \o << <<"</b>">> >>

IsMention(tok) == tok[1] = "at"

-----------------------------------------------------------------------------
(* The collaborator *)

\* the lists a lookup answers with: no match, one match, several matches
UserLists == {<<>>, <<"u1">>, <<"u2", "u1">>}
ChatLists == {<<>>, <<"c1">>, <<"c2", "c1">>}
\* the lists drawn while a dispatch runs: the choice of the first match is in
\* the resolvers, which the resolver tools exercise with the lists above
DispatchUserLists == {<<>>, <<"u1">>}
DispatchChatLists == {<<>>, <<"c1">>}
UploadKeys == {"", "None", "k1"}
SendOutcomes == {"ok", "api_error", "raise"}

\* a comparison with "" in place of `not file_key`: None passes
FalsyKeyEmptyOnly(k) == k = ""

\* `not file_key`: the empty string and None
FalsyKey(k) == k \in {"", "None"}

Call(name, target, body) == [op |-> name, target |-> target, body |-> body]

SendOps == {"send_text_to_user", "send_text_to_chat",
            "send_post_to_user", "send_post_to_chat",
            "send_image_to_user", "send_image_to_chat",
            "send_audio_to_user", "send_audio_to_chat",
            "send_media_to_user", "send_media_to_chat",
            "send_file_to_user", "send_file_to_chat"}
UploadOps == {"upload_image", "upload_file"}

\* A running call: the handle, the collaborator calls so far, the value so far.
Frame(b, cs, r) == [bot |-> b, calls |-> cs, res |-> r]

\* bot.<name>(...): an attribute of None does not exist; otherwise the call is
\* made and `answer` comes back.
BotCall(f, call, answer) ==
    IF f.bot = "None"
    THEN Frame(f.bot, f.calls, Fault("AttributeError"))
    ELSE Frame(f.bot, Append(f.calls, call), answer)

\* a send: its payload comes back, or the collaborator's fault propagates
SendAnswer(outcome) ==
    IF outcome = "raise" THEN Fault("CollabError") ELSE SentDict(outcome)

-----------------------------------------------------------------------------
(* Initialisation of the handle *)

init_feishu_bot(f, W) ==
    IF W.ctor = "raise"
    THEN Frame(f.bot, f.calls, StatusDict("error"))
    ELSE LET cs == Append(f.calls, Call("get_group_list", "", <<>>))
         IN  IF W.conn = "raise"
             THEN Frame("Bot", cs, StatusDict("error"))
             ELSE Frame("Bot", cs, StatusDict("success"))

ensure_bot_initialized(f, W) ==
    IF f.bot = "None"
    THEN IF env
         THEN LET r == init_feishu_bot(f, W)
              IN  Frame(r.bot, r.calls, BoolVal(r.res.val = "success"))
         ELSE Frame(f.bot, f.calls, BoolVal(FALSE))
    ELSE Frame(f.bot, f.calls, BoolVal(TRUE))

-----------------------------------------------------------------------------
(* Recipient resolvers *)

find_feishu_user(f, W, mobile, email) ==
    LET e == ensure_bot_initialized(f, W)
    IN  IF e.res.val # "True"
        THEN Frame(e.bot, e.calls, ErrorDict(NotInitializedReason))
        ELSE LET mobiles == IF mobile # "" THEN <<mobile>> ELSE <<>>
                 emails == IF email # "" THEN <<email>> ELSE <<>>
                 q == Call("get_user_info", "",
                           << <<"emails">> \o emails, <<"mobiles">> \o mobiles >>)
             IN  BotCall(e, q,
                         IF W.users # <<>> THEN UserDict(W.users[1]) ELSE EmptyDict)

find_feishu_group(f, W, group_name) ==
    LET chat_ids == W.chats
        a == BotCall(f, Call("get_group_chat_id_by_name", group_name, <<>>), NoResult)
    IN  IF IsFault(a.res) THEN a
        ELSE IF chat_ids = <<>> THEN Frame(a.bot, a.calls, EmptyDict)
        ELSE BotCall(a, Call("get_members_in_group_by_group_chat_id", chat_ids[1], <<>>),
                     GroupDict(chat_ids[1], group_name))

find_feishu_group_member(f, W, group_name, member_name) ==
    LET g == find_feishu_group(f, W, group_name)
    IN  IF IsFault(g.res) THEN g
        ELSE IF ~Truthy(g.res) THEN Frame(g.bot, g.calls, EmptyDict)
        ELSE LET member_ids == W.memberIds[member_name]
             IN  BotCall(g, Call("get_member_open_id_by_name", g.res.val,
                                 << <<member_name>> >>),
                         IF member_ids = <<>> THEN EmptyDict
                         ELSE MemberDict(member_name, member_ids[1]))

-----------------------------------------------------------------------------
(* send_feishu_text_message *)

\* user["user_id"]: the key is there only in a user record
UserId(user) == user.val
HasUserId(user) == user.tag = "user"

\* bot.send_X_to_user(user["user_id"], payload): the attribute of the handle is
\* loaded first, then the subscript is evaluated, then the call is made.
SendToUser(f, send_op, user, body, outcome) ==
    IF f.bot = "None" THEN Frame(f.bot, f.calls, Fault("AttributeError"))
    ELSE IF ~HasUserId(user) THEN Frame(f.bot, f.calls, Fault("KeyError"))
    ELSE BotCall(f, Call(send_op, UserId(user), body), SendAnswer(outcome))

SendToChat(f, send_op, group, body, outcome) ==
    BotCall(f, Call(send_op, group.val, body), SendAnswer(outcome))

\* the loop with a `break` at the first name that does not resolve
RECURSIVE at_members_loop_break(_, _, _, _, _)
at_members_loop_break(f, W, to_group, at_members, text) ==
    IF at_members = <<>> THEN [bot |-> f.bot, calls |-> f.calls, res |-> NoResult,
                               text |-> text]
    ELSE LET member_info == find_feishu_group_member(f, W, to_group, Head(at_members))
         IN  IF IsFault(member_info.res) \/ ~Truthy(member_info.res)
             THEN [bot |-> member_info.bot, calls |-> member_info.calls,
                   res |-> IF IsFault(member_info.res) THEN member_info.res ELSE NoResult,
                   text |-> text]
             ELSE at_members_loop_break(
                     Frame(member_info.bot, member_info.calls, NoResult), W, to_group,
                     Tail(at_members),
                     text \o make_at_someone_pattern(member_info.res.val,
                                                     member_info.res.name,
                                                     "open_id") \o <<Sp>>)

\* the loop over at_members: the frame carries the text built so far in .text
RECURSIVE at_members_loop(_, _, _, _, _)
at_members_loop(f, W, to_group, at_members, text) ==
    IF at_members = <<>> THEN [bot |-> f.bot, calls |-> f.calls, res |-> NoResult,
                               text |-> text]
    ELSE LET member_info == find_feishu_group_member(f, W, to_group, Head(at_members))
         IN  IF IsFault(member_info.res)
             THEN [bot |-> member_info.bot, calls |-> member_info.calls,
                   res |-> member_info.res, text |-> text]
             ELSE at_members_loop(
                     Frame(member_info.bot, member_info.calls, NoResult), W, to_group,
                     Tail(at_members),
                     IF Truthy(member_info.res)
                     THEN text \o make_at_someone_pattern(member_info.res.val,
                                                          member_info.res.name,
                                                          "open_id") \o <<Sp>>
                     ELSE text)

\* lines 162-179: the "@" marks
text_at_marks(f, W, a) ==
    LET text0 == IF a.to_group # "" /\ a.at_all
                 THEN make_at_all_pattern \o <<Sp>> ELSE <<>>
        same == [bot |-> f.bot, calls |-> f.calls, res |-> NoResult, text |-> text0]
    IN  IF a.to_group # "" /\ a.at_members # <<>>
        THEN LET group == find_feishu_group(f, W, a.to_group)
             IN  IF IsFault(group.res)
                 THEN [bot |-> group.bot, calls |-> group.calls, res |-> group.res,
                       text |-> text0]
                 ELSE IF Truthy(group.res)
                 THEN at_members_loop(Frame(group.bot, group.calls, NoResult), W,
                                      a.to_group, a.at_members, text0)
                 ELSE [bot |-> group.bot, calls |-> group.calls, res |-> NoResult,
                       text |-> text0]
        ELSE same

\* the body with is_important ignored
text_body_plain(a) == a.message

\* lines 181-185: the message body
text_body(a) ==
    IF a.is_important THEN make_bold_pattern(a.message) ELSE a.message

\* lines 187-200: the send
text_send(f, W, a, text) ==
    IF a.to_user_mobile # "" \/ a.to_user_email # ""
    THEN LET user == find_feishu_user(f, W, a.to_user_mobile, a.to_user_email)
         IN  IF Truthy(user.res)
             THEN SendToUser(user, "send_text_to_user", user.res, text, W.send)
             ELSE Frame(user.bot, user.calls, ErrorDict("User not found"))
    ELSE IF a.to_group # ""
    THEN LET group == find_feishu_group(f, W, a.to_group)
         IN  IF IsFault(group.res) THEN group
             ELSE IF Truthy(group.res)
             THEN SendToChat(group, "send_text_to_chat", group.res, text, W.send)
             ELSE Frame(group.bot, group.calls, ErrorDict("Group not found"))
    ELSE Frame(f.bot, f.calls, ErrorDict("No valid recipient specified"))

send_feishu_text_message(f, W, a) ==
    LET m == text_at_marks(f, W, a)
    IN  IF IsFault(m.res) THEN Frame(m.bot, m.calls, m.res)
        ELSE text_send(Frame(m.bot, m.calls, NoResult), W, a, m.text \o text_body(a))

-----------------------------------------------------------------------------
(* PostContent: a document is a sequence of lines, a line a sequence of      *)
(* fragments, a fragment a tuple of strings                                  *)

PostContent(title) == <<>>
add_content_in_new_line(post, fragment) == Append(post, <<fragment>>)
\* an addition that opens a line of its own
add_content_in_line_opens_line(post, fragment) == Append(post, <<fragment>>)
add_content_in_line(post, fragment) ==
    IF post = <<>> THEN <<<<fragment>>>>
    ELSE [post EXCEPT ![Len(post)] = Append(post[Len(post)], fragment)]
make_text_content(content, style) == <<"text", content, style>>
make_at_content(open_id, style) == <<"at", open_id, style>>
make_link_content(text, url) == <<"a", text, url>>
make_markdown_content(content) == <<"md", content, "">>
make_hr_content == <<"hr", "", "">>
make_emoji_content(emoji_type) == <<"emotion", emoji_type, "">>
make_code_block_content(language, text) == <<"code_block", language, text>>
\* post.get_content(): what is handed to send_post_*
get_content(post) == post

\* the text of the at-all pattern, as the content of a text fragment
AtAllText == "<at user_id=all>"

-----------------------------------------------------------------------------
(* send_feishu_rich_message *)

Element(type, content, bold) == [type |-> type, content |-> content, bold |-> bold]

ContentElements ==
    { Element("text", "hello", TRUE),
      Element("at_user", "Alice", FALSE),
      Element("at_all", "", FALSE),
      Element("divider", "", FALSE),
      Element("markdown", "## h", FALSE),
      Element("sticker", "", FALSE) }

\* lines 232-260: the loop over content_elements; the frame carries the post
RECURSIVE rich_elements_loop(_, _, _, _, _)
rich_elements_loop(f, W, to_group, elements, post) ==
    IF elements = <<>>
    THEN [bot |-> f.bot, calls |-> f.calls, res |-> NoResult, post |-> post]
    ELSE LET element == Head(elements)
             rest == Tail(elements)
         IN  IF element.type = "text"
             THEN rich_elements_loop(f, W, to_group, rest,
                      add_content_in_new_line(post,
                          make_text_content(element.content,
                                            IF element.bold THEN "bold" ELSE "")))
             ELSE IF element.type = "at_user" /\ to_group # ""
             THEN LET member == find_feishu_group_member(f, W, to_group, element.content)
                  IN  IF IsFault(member.res)
                      THEN [bot |-> member.bot, calls |-> member.calls,
                            res |-> member.res, post |-> post]
                      ELSE rich_elements_loop(
                               Frame(member.bot, member.calls, NoResult), W, to_group, rest,
                               IF Truthy(member.res)
                               THEN add_content_in_new_line(post,
                                        make_at_content(member.res.val, ""))
                               ELSE post)
             ELSE IF element.type = "at_all"
             THEN rich_elements_loop(f, W, to_group, rest,
                      add_content_in_new_line(post, make_text_content(AtAllText, "")))
             ELSE IF element.type = "link"
             THEN rich_elements_loop(f, W, to_group, rest,
                      add_content_in_new_line(post,
                          make_link_content(element.content, "url")))
             ELSE IF element.type = "markdown"
             THEN rich_elements_loop(f, W, to_group, rest,
                      add_content_in_new_line(post,
                          make_markdown_content(element.content)))
             ELSE IF element.type = "divider"
             THEN rich_elements_loop(f, W, to_group, rest,
                      add_content_in_new_line(post, make_hr_content))
             ELSE rich_elements_loop(f, W, to_group, rest, post)

\* lines 262-275: the send
rich_send(f, W, a, post) ==
    IF a.to_user_mobile # "" \/ a.to_user_email # ""
    THEN LET user == find_feishu_user(f, W, a.to_user_mobile, a.to_user_email)
         IN  IF Truthy(user.res)
             THEN SendToUser(user, "send_post_to_user", user.res, get_content(post),
                             W.send)
             ELSE Frame(user.bot, user.calls, ErrorDict("User not found"))
    ELSE IF a.to_group # ""
    THEN LET group == find_feishu_group(f, W, a.to_group)
         IN  IF IsFault(group.res) THEN group
             ELSE IF Truthy(group.res)
             THEN SendToChat(group, "send_post_to_chat", group.res, get_content(post),
                             W.send)
             ELSE Frame(group.bot, group.calls, ErrorDict("Group not found"))
    ELSE Frame(f.bot, f.calls, ErrorDict("No valid recipient specified"))

send_feishu_rich_message(f, W, a) ==
    LET b == rich_elements_loop(f, W, a.to_group, a.content_elements,
                                PostContent(a.title))
    IN  IF IsFault(b.res) THEN Frame(b.bot, b.calls, b.res)
        ELSE rich_send(Frame(b.bot, b.calls, NoResult), W, a, b.post)

-----------------------------------------------------------------------------
(* send_feishu_file *)

KeyBody(file_key) == << <<file_key>> >>

\* lines 301-305: the upload
file_upload(f, W, a) ==
    IF a.file_type = "image"
    THEN BotCall(f, Call("upload_image", a.file_path, <<>>), Dict("key", W.key, ""))
    ELSE BotCall(f, Call("upload_file", a.file_path, << <<a.file_type>> >>),
                 Dict("key", W.key, ""))

\* lines 321-328 and 340-347: the send operation of a file type
media_send_op(file_type) ==
    IF file_type = "image" THEN "send_image"
    ELSE IF file_type = "opus" THEN "send_audio"
    ELSE IF file_type = "mp4" THEN "send_media"
    ELSE "send_file"

UserOp(kind) ==
    CASE kind = "send_image" -> "send_image_to_user"
      [] kind = "send_audio" -> "send_audio_to_user"
      [] kind = "send_media" -> "send_media_to_user"
      [] OTHER -> "send_file_to_user"

ChatOp(kind) ==
    CASE kind = "send_image" -> "send_image_to_chat"
      [] kind = "send_audio" -> "send_audio_to_chat"
      [] kind = "send_media" -> "send_media_to_chat"
      [] OTHER -> "send_file_to_chat"

\* lines 316-318 and 335-337: the companion text; its return value is dropped
file_companion_to_user(f, W, a, user) ==
    IF a.message # <<>>
    THEN SendToUser(f, "send_text_to_user", user, a.message, W.companion)
    ELSE f

file_companion_to_chat(f, W, a, group) ==
    IF a.message # <<>>
    THEN SendToChat(f, "send_text_to_chat", group, a.message, W.companion)
    ELSE f

\* lines 310-349: find the recipient, send the companion text, send the file
file_send(f, W, a, file_key) ==
    IF a.to_user_mobile # "" \/ a.to_user_email # ""
    THEN LET user == find_feishu_user(f, W, a.to_user_mobile, a.to_user_email)
         IN  IF ~Truthy(user.res)
             THEN Frame(user.bot, user.calls, ErrorDict("User not found"))
             ELSE LET c == file_companion_to_user(user, W, a, user.res)
                  IN  IF IsFault(c.res) THEN c
                      ELSE SendToUser(c, UserOp(media_send_op(a.file_type)), user.res,
                                      KeyBody(file_key), W.send)
    ELSE IF a.to_group # ""
    THEN LET group == find_feishu_group(f, W, a.to_group)
         IN  IF IsFault(group.res) THEN group
             ELSE IF ~Truthy(group.res)
             THEN Frame(group.bot, group.calls, ErrorDict("Group not found"))
             ELSE LET c == file_companion_to_chat(group, W, a, group.res)
                  IN  IF IsFault(c.res) THEN c
                      ELSE SendToChat(c, ChatOp(media_send_op(a.file_type)), group.res,
                                      KeyBody(file_key), W.send)
    ELSE Frame(f.bot, f.calls, ErrorDict("No valid recipient specified"))

send_feishu_file(f, W, a) ==
    LET u == file_upload(f, W, a)
    IN  IF IsFault(u.res) THEN u
        ELSE IF FalsyKey(u.res.val)
        THEN Frame(u.bot, u.calls, ErrorDict("File upload failed"))
        ELSE file_send(Frame(u.bot, u.calls, NoResult), W, a, u.res.val)

-----------------------------------------------------------------------------
(* send_meeting_summary *)

\* an optional string left out (None) or given
Markdowns == {"", "## m"}
Emojis == {"", "SMILE"}
\* add_code_block: left out, or its language and its code
CodeBlocks == {<<>>, <<"python", "print(1)">>}
Contents == {"minutes"}

\* the text of the header fragment
AttendeesHeader == "attendees:"

\* lines 739-744: the loop over attendees; the frame carries the post
RECURSIVE summary_attendees_loop(_, _, _, _, _)
summary_attendees_loop(f, W, group_name, attendees, post) ==
    IF attendees = <<>>
    THEN [bot |-> f.bot, calls |-> f.calls, res |-> NoResult, post |-> post]
    ELSE LET member_info == find_feishu_group_member(f, W, group_name, Head(attendees))
         IN  IF IsFault(member_info.res)
             THEN [bot |-> member_info.bot, calls |-> member_info.calls,
                   res |-> member_info.res, post |-> post]
             ELSE summary_attendees_loop(
                      Frame(member_info.bot, member_info.calls, NoResult), W, group_name,
                      Tail(attendees),
                      IF Truthy(member_info.res)
                      THEN add_content_in_line(post,
                               make_at_content(member_info.res.val, "italic"))
                      ELSE post)

\* lines 746-772: what follows the attendees
summary_sections(a, post) ==
    LET hr == add_content_in_new_line(post, make_hr_content)
        body == IF a.add_markdown # ""
                THEN add_content_in_new_line(hr, make_markdown_content(a.add_markdown))
                ELSE add_content_in_new_line(hr, make_text_content(a.content, ""))
        emoji == IF a.add_emoji # ""
                 THEN add_content_in_new_line(body, make_emoji_content(a.add_emoji))
                 ELSE body
    IN  IF a.add_code_block # <<>>
        THEN add_content_in_new_line(emoji,
                 make_code_block_content(a.add_code_block[1], a.add_code_block[2]))
        ELSE emoji

send_meeting_summary(f, W, a) ==
    LET group == find_feishu_group(f, W, a.group_name)
    IN  IF IsFault(group.res) THEN group
        ELSE IF ~Truthy(group.res)
        THEN Frame(group.bot, group.calls, ErrorDict("Group not found"))
        ELSE LET post == add_content_in_new_line(PostContent(a.title),
                             make_text_content(AttendeesHeader, "bold"))
                 b == summary_attendees_loop(Frame(group.bot, group.calls, NoResult), W,
                                             a.group_name, a.attendees, post)
             IN  IF IsFault(b.res) THEN Frame(b.bot, b.calls, b.res)
                 ELSE SendToChat(Frame(b.bot, b.calls, NoResult), "send_post_to_chat",
                                 group.res, get_content(summary_sections(a, b.post)),
                                 W.send)

-----------------------------------------------------------------------------
(* send_multimedia_message *)

\* the media in the order the handler takes them
MediaOrder == <<"image", "audio", "video", "file">>
Media == {"image", "audio", "video", "file"}
\* a path left out (None) or given
MediaPaths == {"", "/tmp/m"}

\* lines 813, 821, 829, 837: the upload of a medium
media_upload_call(medium, path) ==
    CASE medium = "image" -> Call("upload_image", path, <<>>)
      [] medium = "audio" -> Call("upload_file", path, << <<"opus">> >>)
      [] medium = "video" -> Call("upload_file", path, << <<"mp4">> >>)
      [] medium = "file" -> Call("upload_file", path, << <<"stream">> >>)

\* lines 815, 823, 831, 839: the send of a medium
media_chat_op(medium) ==
    CASE medium = "image" -> "send_image_to_chat"
      [] medium = "audio" -> "send_audio_to_chat"
      [] medium = "video" -> "send_media_to_chat"
      [] medium = "file" -> "send_file_to_chat"

\* lines 817, 825, 833, 841
media_upload_failed(medium) ==
    CASE medium = "image" -> ErrorDict("Image upload failed")
      [] medium = "audio" -> ErrorDict("Audio upload failed")
      [] medium = "video" -> ErrorDict("Video upload failed")
      [] medium = "file" -> ErrorDict("File upload failed")

\* a test that lets every key through
media_key_any(file_key) == TRUE

\* `if image_key:` and its three likes
media_key_given(file_key) == ~FalsyKey(file_key)

\* results[key] = entry
SetEntry(results, key, entry) == (key :> entry) @@ results

\* a frame that carries the results so far
MediaFrame(f, results) ==
    [bot |-> f.bot, calls |-> f.calls, res |-> f.res, results |-> results]

\* one of the four `if <path>:` blocks
media_step(f, W, group, medium, path) ==
    IF path = "" THEN f
    ELSE LET u == BotCall(f, media_upload_call(medium, path),
                          Dict("key", W.keys[medium], ""))
         IN  IF IsFault(u.res) THEN MediaFrame(u, f.results)
             ELSE IF media_key_given(u.res.val)
             THEN LET sent == SendToChat(u, media_chat_op(medium), group,
                                         KeyBody(u.res.val), W.sends[medium])
                  IN  IF IsFault(sent.res) THEN MediaFrame(sent, f.results)
                      ELSE MediaFrame(Frame(sent.bot, sent.calls, NoResult),
                                      SetEntry(f.results, medium, sent.res))
             ELSE MediaFrame(Frame(u.bot, u.calls, NoResult),
                             SetEntry(f.results, medium, media_upload_failed(medium)))

\* lines 811-841: the four blocks one after the other
RECURSIVE media_steps(_, _, _, _, _)
media_steps(f, W, group, a, media) ==
    IF media = <<>> \/ IsFault(f.res) THEN f
    ELSE media_steps(media_step(f, W, group, Head(media), a.paths[Head(media)]),
                     W, group, a, Tail(media))

\* lines 808-809: the text
media_text(f, W, group, a) ==
    IF a.message # <<>>
    THEN LET sent == SendToChat(f, "send_text_to_chat", group, a.message, W.text)
         IN  IF IsFault(sent.res) THEN MediaFrame(sent, <<>>)
             ELSE MediaFrame(Frame(sent.bot, sent.calls, NoResult),
                             SetEntry(<<>>, "message", sent.res))
    ELSE MediaFrame(f, <<>>)

send_multimedia_message(f, W, a) ==
    LET group == find_feishu_group(f, W, a.group_name)
    IN  IF IsFault(group.res) THEN group
        ELSE IF ~Truthy(group.res)
        THEN Frame(group.bot, group.calls, ErrorDict("Group not found"))
        ELSE LET t == media_text(Frame(group.bot, group.calls, NoResult), W,
                                 group.res, a)
                 m == media_steps(t, W, group.res, a, MediaOrder)
             IN  IF IsFault(m.res) THEN Frame(m.bot, m.calls, m.res)
                 ELSE Frame(m.bot, m.calls, Dict("results", m.results, ""))

-----------------------------------------------------------------------------
(* The collaborator's answers during one call *)

\* what get_member_open_id_by_name answers for each name: nobody, one member,
\* or several members of that name
MemberAnswers ==
    [Alice |-> {<<>>, <<"oA">>, <<"oA2", "oA">>}, Bob |-> {<<>>, <<"oB">>}]
MemberDirectories ==
    {d \in [MemberNames -> {<<>>, <<"oA">>, <<"oA2", "oA">>, <<"oB">>}] :
        \A n \in MemberNames : d[n] \in MemberAnswers[n]}
DispatchMemberDirectories ==
    {d \in MemberDirectories : \A n \in MemberNames : Len(d[n]) <= 1}

\* LarkBot(...) and get_group_list() inside init_feishu_bot
InitOutcomes == {<<"ok", "ok">>, <<"ok", "raise">>, <<"raise", "ok">>}

World(users, chats, memberIds, key, send, companion, io) ==
    [users |-> users, chats |-> chats, memberIds |-> memberIds, key |-> key,
     send |-> send, companion |-> companion, ctor |-> io[1], conn |-> io[2]]

NoMembers == [n \in MemberNames |-> <<>>]
QuietWorld == World(<<>>, <<>>, NoMembers, "", "ok", "ok", <<"ok", "ok">>)

\* the initialisation is attempted only by a call that finds no handle while
\* the environment names the application
InitOutcomesNow == IF bot = "None" /\ env THEN InitOutcomes ELSE {<<"ok", "ok">>}

-----------------------------------------------------------------------------
(* The tool calls *)

Init ==
    /\ bot = "None"
    /\ env \in BOOLEAN
    /\ pc = "idle"
    /\ op = "none"
    /\ args = [tool |-> "none"]
    /\ collab = QuietWorld
    /\ calls = <<>>
    /\ result = NoResult

\* a tool call runs from its first line to its return (or its fault)
Ends(name, a, W, out) ==
    /\ pc' = "done"
    /\ op' = name
    /\ args' = a
    /\ collab' = W
    /\ calls' = out.calls
    /\ result' = out.res
    /\ bot' = out.bot
    /\ UNCHANGED env

Idle == Frame(bot, <<>>, NoResult)

InitFeishuBot ==
    /\ pc = "idle"
    /\ \E io \in InitOutcomes :
        LET W == [QuietWorld EXCEPT !.ctor = io[1], !.conn = io[2]]
        IN  Ends("init_feishu_bot", [app_id |-> "id", app_secret |-> "secret"], W,
                 init_feishu_bot(Idle, W))

FindFeishuUser ==
    /\ pc = "idle"
    /\ \E mobile \in Mobiles, email \in Emails, users \in UserLists, io \in InitOutcomesNow :
        LET W == [QuietWorld EXCEPT !.users = users, !.ctor = io[1], !.conn = io[2]]
        IN  Ends("find_feishu_user", [mobile |-> mobile, email |-> email], W,
                 find_feishu_user(Idle, W, mobile, email))

FindFeishuGroup ==
    /\ pc = "idle"
    /\ \E group_name \in GroupNames, chats \in ChatLists :
        LET W == [QuietWorld EXCEPT !.chats = chats]
        IN  Ends("find_feishu_group", [group_name |-> group_name], W,
                 find_feishu_group(Idle, W, group_name))

FindFeishuGroupMember ==
    /\ pc = "idle"
    /\ \E group_name \in GroupNames, member_name \in MemberNames,
       chats \in ChatLists, memberIds \in MemberDirectories :
        LET W == [QuietWorld EXCEPT !.chats = chats, !.memberIds = memberIds]
        IN  Ends("find_feishu_group_member",
                 [group_name |-> group_name, member_name |-> member_name], W,
                 find_feishu_group_member(Idle, W, group_name, member_name))

SendFeishuTextMessage ==
    /\ pc = "idle"
    /\ \E message \in Messages, to_user_mobile \in Mobiles, to_user_email \in Emails,
       to_group \in GroupNames, at_all \in BOOLEAN,
       at_members \in SeqsUpTo(MemberNames, MaxMembers), is_important \in BOOLEAN,
       users \in DispatchUserLists, chats \in DispatchChatLists, memberIds \in DispatchMemberDirectories,
       send \in SendOutcomes, io \in InitOutcomesNow :
        LET a == [message |-> message, to_user_mobile |-> to_user_mobile,
                  to_user_email |-> to_user_email, to_group |-> to_group,
                  at_all |-> at_all, at_members |-> at_members,
                  is_important |-> is_important]
            W == World(users, chats, memberIds, "", send, "ok", io)
        IN  Ends("send_feishu_text_message", a, W, send_feishu_text_message(Idle, W, a))

SendFeishuRichMessage ==
    /\ pc = "idle"
    /\ \E content_elements \in SeqsUpTo(ContentElements, MaxElements),
       to_user_mobile \in Mobiles, to_user_email \in Emails, to_group \in GroupNames,
       users \in DispatchUserLists, chats \in DispatchChatLists, memberIds \in DispatchMemberDirectories,
       send \in SendOutcomes, io \in InitOutcomesNow :
        LET a == [title |-> "T", content_elements |-> content_elements,
                  to_user_mobile |-> to_user_mobile, to_user_email |-> to_user_email,
                  to_group |-> to_group]
            W == World(users, chats, memberIds, "", send, "ok", io)
        IN  Ends("send_feishu_rich_message", a, W, send_feishu_rich_message(Idle, W, a))

SendFeishuFile ==
    /\ pc = "idle"
    /\ \E file_path \in FilePaths, to_user_mobile \in Mobiles, to_user_email \in Emails,
          to_group \in GroupNames, file_type \in FileTypes, message \in CompanionMessages,
          users \in DispatchUserLists, chats \in DispatchChatLists, key \in UploadKeys,
          send \in SendOutcomes, io \in InitOutcomesNow :
        \* the companion send has an outcome only when there is a companion text
        \E companion \in (IF message = <<>> THEN {"ok"} ELSE SendOutcomes) :
        LET a == [file_path |-> file_path, to_user_mobile |-> to_user_mobile,
                  to_user_email |-> to_user_email, to_group |-> to_group,
                  file_type |-> file_type, message |-> message]
            W == World(users, chats, NoMembers, key, send, companion, io)
        IN  Ends("send_feishu_file", a, W, send_feishu_file(Idle, W, a))

SendMeetingSummary ==
    /\ pc = "idle"
    /\ \E group_name \in GroupNames, attendees \in SeqsUpTo(MemberNames, MaxAttendees),
          content \in Contents, add_markdown \in Markdowns, add_emoji \in Emojis,
          add_code_block \in CodeBlocks,
          chats \in DispatchChatLists, memberIds \in DispatchMemberDirectories,
          send \in SendOutcomes :
        LET a == [title |-> "T", group_name |-> group_name, attendees |-> attendees,
                  content |-> content, add_markdown |-> add_markdown,
                  add_emoji |-> add_emoji, add_code_block |-> add_code_block]
            W == World(<<>>, chats, memberIds, "", send, "ok", <<"ok", "ok">>)
        IN  Ends("send_meeting_summary", a, W, send_meeting_summary(Idle, W, a))

\* the answers to the uploads and the sends of the media that were asked for
MediaAnswers(paths) ==
    {w \in [keys : [Media -> UploadKeys], sends : [Media -> SendOutcomes]] :
        \A m \in Media :
            /\ paths[m] = "" => (w.keys[m] = "" /\ w.sends[m] = "ok")
            /\ FalsyKey(w.keys[m]) => w.sends[m] = "ok"}

SendMultimediaMessage ==
    /\ pc = "idle"
    /\ \E group_name \in GroupNames, message \in CompanionMessages,
          paths \in [Media -> MediaPaths], chats \in DispatchChatLists :
        \E text \in (IF message = <<>> THEN {"ok"} ELSE SendOutcomes),
           w \in MediaAnswers(paths) :
        LET a == [group_name |-> group_name, message |-> message, paths |-> paths]
            W == [chats |-> chats, text |-> text, keys |-> w.keys, sends |-> w.sends]
        IN  Ends("send_multimedia_message", a, W, send_multimedia_message(Idle, W, a))

\* the result goes back to the tool host; the values of the call are dropped
Respond ==
    /\ pc = "done"
    /\ pc' = "idle"
    /\ op' = "none"
    /\ args' = [tool |-> "none"]
    /\ collab' = QuietWorld
    /\ calls' = <<>>
    /\ result' = NoResult
    /\ UNCHANGED <<bot, env>>

Next ==
    \/ InitFeishuBot
    \/ FindFeishuUser
    \/ FindFeishuGroup
    \/ FindFeishuGroupMember
    \/ SendFeishuTextMessage
    \/ SendFeishuRichMessage
    \/ SendFeishuFile
    \/ SendMeetingSummary
    \/ SendMultimediaMessage
    \/ Respond

Spec == Init /\ [][Next]_vars

-----------------------------------------------------------------------------
(* What a finished call shows *)

Done(name) == pc = "done" /\ op = name

DispatchTools ==
    {"send_feishu_text_message", "send_feishu_rich_message", "send_feishu_file"}
ResolverTools == {"find_feishu_user", "find_feishu_group", "find_feishu_group_member"}

DoneDispatch == pc = "done" /\ op \in DispatchTools

CallsOf(ops) == SelectSeq(calls, LAMBDA c : c.op \in ops)
Sends == CallsOf(SendOps)
Uploads == CallsOf(UploadOps)
Invoked(name) == \E i \in 1..Len(calls) : calls[i].op = name

\* the call found the handle in place
HandleReady == bot = "Bot" /\ ~Invoked("get_group_list")

UserSelected == args.to_user_mobile # "" \/ args.to_user_email # ""
GroupSelected == ~UserSelected /\ args.to_group # ""
NoRecipient == ~UserSelected /\ args.to_group = ""

\* the call looked the selected recipient up and the lookup found nobody
UserNotFound == UserSelected /\ Invoked("get_user_info") /\ collab.users = <<>>
GroupNotFound ==
    GroupSelected /\ Invoked("get_group_chat_id_by_name") /\ collab.chats = <<>>
\* the call looked the selected recipient up and the lookup found it
UserFound == UserSelected /\ Invoked("get_user_info") /\ collab.users # <<>>
GroupFound ==
    GroupSelected /\ Invoked("get_group_chat_id_by_name") /\ collab.chats # <<>>

\* C1: in each of the three dispatch tools, when the selected recipient is
\* looked up and not found, the call returns {"error": "User not found"} (a
\* user) or {"error": "Group not found"} (a group) and has invoked no send
\* operation of the collaborator.
C1_NotFoundSendsNothing ==
    DoneDispatch =>
        /\ UserNotFound => result = ErrorDict("User not found") /\ Sends = <<>>
        /\ GroupNotFound => result = ErrorDict("Group not found") /\ Sends = <<>>

C1_Witness ==
    /\ Done("send_feishu_file") /\ args.message # <<>> /\ GroupNotFound
    /\ Uploads # <<>>

\* the reasons that end in "upload failed"
UploadFailedReasons ==
    {"File upload failed", "Image upload failed", "Audio upload failed",
     "Video upload failed"}

\* C2: in send_feishu_file, whatever the file type and the recipient, when the
\* upload returns an empty or absent key the call returns an error whose reason
\* ends in "upload failed" and invokes no send operation.
C2_UploadFailureSendsNothing ==
    (Done("send_feishu_file") /\ Uploads # <<>> /\ collab.key \in {"", "None"}) =>
        /\ result.tag = "error" /\ result.val \in UploadFailedReasons
        /\ Sends = <<>>

C2_Witness ==
    /\ Done("send_feishu_file") /\ Uploads # <<>> /\ collab.key = "None"
    /\ args.file_type = "image" /\ args.message # <<>> /\ args.to_group # ""
    /\ collab.chats # <<>>

\* C3 (as claimed), with the handle in place: a dispatch with no group, no
\* mobile and no email returns exactly {"error": "No valid recipient
\* specified"}, for text, post and every file type, whatever the collaborator
\* returns.
C3_NoRecipientError ==
    (DoneDispatch /\ HandleReady /\ NoRecipient) =>
        result = ErrorDict("No valid recipient specified")

IsRecipientLookup(c) == c.op \in {"get_user_info", "get_group_chat_id_by_name"}

\* C4 (as claimed), with the handle in place: in send_feishu_file the upload
\* comes after the recipient has been resolved, so a call whose recipient is
\* not found or not given uploads nothing; the companion text comes after the
\* upload and the primary send after the companion text.
C4_ResolveBeforeUpload ==
    (Done("send_feishu_file") /\ HandleReady) =>
        /\ \A i \in 1..Len(calls) :
              calls[i].op \in UploadOps =>
                  \E j \in 1..(i - 1) : IsRecipientLookup(calls[j])
        /\ (NoRecipient \/ UserNotFound \/ GroupNotFound) => Uploads = <<>>
        /\ \A i \in 1..Len(calls) :
              calls[i].op \in SendOps =>
                  \E j \in 1..(i - 1) : calls[j].op \in UploadOps
        /\ \A i, j \in 1..Len(calls) :
              (calls[i].op \in {"send_text_to_user", "send_text_to_chat"}
                  /\ calls[j].op \in SendOps /\ i # j) => i < j

-----------------------------------------------------------------------------
(* The text a group is meant to receive, written out token by token *)

Resolves(name) == collab.memberIds[name] # <<>>
AllResolve(names) == \A i \in 1..Len(names) : Resolves(names[i])

\* the mention of each name that resolves, in the order of the names, each
\* followed by one space
RECURSIVE ExpectedMentions(_)
ExpectedMentions(names) ==
    IF names = <<>> THEN <<>>
    ELSE (IF Resolves(Head(names))
          THEN << <<"at", collab.memberIds[Head(names)][1], Head(names)>>, <<" ">> >>
          ELSE <<>>) \o ExpectedMentions(Tail(names))

ExpectedAtAll == << <<"at", "all", "">>, <<" ">> >>

ExpectedBody ==
    IF args.is_important
    THEN << <<"<b>">> >> \o args.message \o << <<"</b>">> >>
    ELSE args.message

\* C5: send_feishu_text_message to a group that resolves, with at_all and with
\* at_members that all resolve, hands send_text_to_chat the at-all pattern,
\* then the mention of each member in the order given, each followed by one
\* space, then the body; the body is the message, inside the bold pattern iff
\* is_important; the bold pattern encloses the message only.
C5_TextComposition ==
    (Done("send_feishu_text_message") /\ args.at_all /\ AllResolve(args.at_members)) =>
        \A i \in 1..Len(calls) :
            calls[i].op = "send_text_to_chat" =>
                calls[i].body =
                    ExpectedAtAll \o ExpectedMentions(args.at_members) \o ExpectedBody

C5_Witness ==
    /\ Done("send_feishu_text_message") /\ args.at_all /\ args.is_important
    /\ args.at_members = <<"Bob", "Alice">> /\ AllResolve(args.at_members)
    /\ Invoked("send_text_to_chat")

\* C6: in send_feishu_text_message to a group that resolves, a name of
\* at_members that does not resolve is skipped and is no error: the text is
\* sent exactly once, to the chat id of the group, with the mentions of exactly
\* the names that resolve, in their order, and the call ends with what the
\* collaborator's send gave, not with an error of the dispatch.
C6_UnresolvedMemberSkipped ==
    (Done("send_feishu_text_message") /\ GroupFound) =>
        /\ Sends = << Call("send_text_to_chat", collab.chats[1],
                           (IF args.at_all THEN ExpectedAtAll ELSE <<>>)
                               \o ExpectedMentions(args.at_members) \o ExpectedBody) >>
        /\ result = SendAnswer(collab.send)
        /\ result.tag # "error"

C6_Witness ==
    /\ Done("send_feishu_text_message") /\ GroupFound
    /\ args.at_members = <<"Alice", "Bob">> /\ ~Resolves("Alice") /\ Resolves("Bob")
    /\ result = SentDict("ok")

\* C7 (as claimed), with the handle in place: a text that
\* send_feishu_text_message delivers through send_text_to_user carries no
\* mention pattern, a group name given beside the mobile or email or not: it
\* is the body, bold or plain.
C7_NoMentionToUser ==
    (Done("send_feishu_text_message") /\ HandleReady) =>
        \A i \in 1..Len(calls) :
            calls[i].op = "send_text_to_user" =>
                /\ calls[i].body = ExpectedBody
                /\ \A k \in 1..Len(calls[i].body) : ~IsMention(calls[i].body[k])

\* the send operation that carries the uploaded key
PrimarySendOps == SendOps \ {"send_text_to_user", "send_text_to_chat",
                             "send_post_to_user", "send_post_to_chat"}
CompanionSendOps == {"send_text_to_user", "send_text_to_chat"}

\* C8 (as claimed), with the handle in place: in send_feishu_file with a
\* companion text, a recipient that resolves and an upload that gave a key,
\* the companion send is invoked and, whether it succeeds, returns an error
\* payload or fails outright, the primary send is invoked exactly once with
\* the key and its result is the result of the call.
C8_CompanionBestEffort ==
    (Done("send_feishu_file") /\ HandleReady /\ args.message # <<>>
        /\ collab.key \notin {"", "None"} /\ (UserFound \/ GroupFound)) =>
        /\ Len(CallsOf(CompanionSendOps)) = 1
        /\ Len(CallsOf(PrimarySendOps)) = 1
        /\ CallsOf(PrimarySendOps)[1].body = << <<collab.key>> >>
        /\ result = SendAnswer(collab.send)

\* C9 (as claimed): with no handle and no way to make one from the
\* environment, each resolver and each dispatch returns {"error": ..} and none
\* ends with a fault.
C9_NotInitializedIsAnError ==
    (pc = "done" /\ op \in ResolverTools \cup DispatchTools
        /\ bot = "None" /\ ~env) =>
        /\ result.tag = "error"
        /\ calls = <<>>

\* C10 (as claimed), with the handle in place: send_feishu_file with a file
\* type outside the recognised set returns {"error": ..} and invokes no upload
\* and no send.
C10_UnsupportedKindRejected ==
    (Done("send_feishu_file") /\ HandleReady
        /\ args.file_type \notin RecognisedFileTypes) =>
        /\ result.tag = "error"
        /\ Uploads = <<>>
        /\ Sends = <<>>

-----------------------------------------------------------------------------
(* find_feishu_user *)

\* the lookup lists find_feishu_user is meant to hand to get_user_info
ExpectedUserQuery ==
    << (IF args.email # "" THEN <<"emails", args.email>> ELSE <<"emails">>),
       (IF args.mobile # "" THEN <<"mobiles", args.mobile>> ELSE <<"mobiles">>) >>

\* C11 (as claimed): find_feishu_user with the handle in place: given a mobile
\* or an email it queries the collaborator once, with lists of zero or one
\* element each, and returns the first match, or the empty not-found result
\* when there is no match; given neither, it returns the not-found result
\* whatever the collaborator answers.
C11_FindUserFirstMatchOrNotFound ==
    (Done("find_feishu_user") /\ HandleReady) =>
        /\ (args.mobile # "" \/ args.email # "") =>
              /\ calls = << Call("get_user_info", "", ExpectedUserQuery) >>
              /\ result = (IF collab.users = <<>> THEN EmptyDict
                           ELSE UserDict(collab.users[1]))
        /\ (args.mobile = "" /\ args.email = "") => result = EmptyDict

\* The part of C11 that holds of the code: whatever the arguments, one query
\* with lists of zero or one element each, and the first match or not-found.
C11_FirstMatchOfTheQuery ==
    (Done("find_feishu_user") /\ HandleReady) =>
        /\ calls = << Call("get_user_info", "", ExpectedUserQuery) >>
        /\ result = (IF collab.users = <<>> THEN EmptyDict
                     ELSE UserDict(collab.users[1]))

-----------------------------------------------------------------------------
(* The handle across initialisations *)

\* the call that ends in this step attempted an initialisation and was told
\* that it failed: init_feishu_bot returned "error", or find_feishu_user,
\* which starts with ensure_bot_initialized, returned the not-initialised error
InitReturnedError ==
    \/ op' = "init_feishu_bot" /\ result' = StatusDict("error")
    \/ op' = "find_feishu_user" /\ bot = "None"
          /\ result' = ErrorDict(NotInitializedReason)

InitReturnedSuccess ==
    \/ op' = "init_feishu_bot" /\ result' = StatusDict("success")
    \/ bot = "None" /\ env /\ collab'.ctor = "ok" /\ collab'.conn = "ok"

\* C15 (as claimed): over any sequence of init_feishu_bot and
\* ensure_bot_initialized calls, the handle goes from absent to present only
\* in a call whose initialisation returned "success", and an initialisation
\* that returns "error", be it from a failed construction or a failed
\* connectivity test, leaves the handle as it was.
C15_HandleOnlyAfterSuccess ==
    [][ /\ (bot = "None" /\ bot' # "None") => InitReturnedSuccess
        /\ InitReturnedError => bot' = bot ]_vars

\* The part of C15 that holds of the code: a construction that fails returns
\* "error" and leaves the handle as it was; an initialisation that returns
\* "success" leaves a handle in place.
C15_FailedConstructionKeepsHandle ==
    [][ op' = "init_feishu_bot" =>
          /\ collab'.ctor = "raise" => (result' = StatusDict("error") /\ bot' = bot)
          /\ result' = StatusDict("success") => bot' = "Bot" ]_vars

-----------------------------------------------------------------------------
(* send_feishu_file: the upload and the primary send a call is meant to make *)

ExpectedSendFamily ==
    CASE args.file_type = "image" -> "send_image"
      [] args.file_type = "opus" -> "send_audio"
      [] args.file_type = "mp4" -> "send_media"
      [] OTHER -> "send_file"

ExpectedPrimarySend ==
    IF UserSelected
    THEN [op |-> ExpectedSendFamily \o "_to_user", target |-> collab.users[1],
          body |-> << <<collab.key>> >>]
    ELSE [op |-> ExpectedSendFamily \o "_to_chat", target |-> collab.chats[1],
          body |-> << <<collab.key>> >>]

ExpectedUpload ==
    IF args.file_type = "image"
    THEN [op |-> "upload_image", target |-> args.file_path, body |-> <<>>]
    ELSE [op |-> "upload_file", target |-> args.file_path,
          body |-> << <<args.file_type>> >>]

UploadedAndResolved ==
    /\ Done("send_feishu_file") /\ HandleReady
    /\ collab.key \notin {"", "None"}
    /\ UserFound \/ GroupFound

\* C14 (as claimed), with the handle in place: in send_feishu_file, after an
\* upload that gave a key and a recipient that resolved, exactly one primary
\* send is invoked: send_image for image, send_audio for opus, send_media for
\* mp4, send_file for any other type, in its to_user form with the resolved
\* user id when a mobile or an email was given and in its to_chat form with
\* the chat id otherwise; the upload is upload_image iff the type is image and
\* upload_file with the type otherwise.
C14_OnePrimarySendByTypeAndRecipient ==
    UploadedAndResolved =>
        /\ Uploads = << ExpectedUpload >>
        /\ CallsOf(PrimarySendOps) = << ExpectedPrimarySend >>

\* The part of C14 that holds of the code: when the companion text, if any,
\* comes back from the collaborator, the upload and the one primary send are
\* the expected ones, and the primary send is the last call.
C14_PrimarySendAfterCompanionReturns ==
    (UploadedAndResolved /\ (args.message = <<>> \/ collab.companion # "raise")) =>
        /\ Uploads = << ExpectedUpload >>
        /\ CallsOf(PrimarySendOps) = << ExpectedPrimarySend >>
        /\ calls[Len(calls)] = ExpectedPrimarySend

-----------------------------------------------------------------------------
(* The document a post is meant to carry, written out line by line *)

RecognisedElementTypes == {"text", "at_user", "at_all", "link", "markdown", "divider"}

\* the element puts something into the document
Emits(element) ==
    /\ element.type \in RecognisedElementTypes
    /\ element.type = "at_user" =>
          args.to_group # "" /\ collab.chats # <<>> /\ Resolves(element.content)

\* the one fragment of the line of an element that emits
ExpectedFragment(element) ==
    CASE element.type = "text" ->
             <<"text", element.content, IF element.bold THEN "bold" ELSE "">>
      [] element.type = "at_user" -> <<"at", collab.memberIds[element.content][1], "">>
      [] element.type = "at_all" -> <<"text", AtAllText, "">>
      [] element.type = "link" -> <<"a", element.content, "url">>
      [] element.type = "markdown" -> <<"md", element.content, "">>
      [] element.type = "divider" -> <<"hr", "", "">>

ExpectedRichDocument ==
    LET emitted == SelectSeq(args.content_elements, Emits)
    IN  [i \in 1..Len(emitted) |-> << ExpectedFragment(emitted[i]) >>]

ExpectedSummaryDocument ==
    LET resolved == SelectSeq(args.attendees, Resolves)
        mentions == [i \in 1..Len(resolved) |->
                        <<"at", collab.memberIds[resolved[i]][1], "italic">>]
    IN  << << <<"text", AttendeesHeader, "bold">> >> \o mentions,
           << <<"hr", "", "">> >>,
           << IF args.add_markdown # "" THEN <<"md", args.add_markdown, "">>
              ELSE <<"text", args.content, "">> >> >>
        \o (IF args.add_emoji # "" THEN << << <<"emotion", args.add_emoji, "">> >> >>
            ELSE <<>>)
        \o (IF args.add_code_block # <<>>
            THEN << << <<"code_block", args.add_code_block[1], args.add_code_block[2]>> >> >>
            ELSE <<>>)

PostOps == {"send_post_to_user", "send_post_to_chat"}

\* C13: the document send_feishu_rich_message sends has one line per element
\* that emits, in the order of the input; an at_user element without a group
\* or with a name that does not resolve, and an element of an unrecognised
\* type, emit nothing.  The document send_meeting_summary sends has the
\* mention of every attendee that resolves, in the order of the attendees, on
\* the line of the header, then a line each for the divider, the content
\* (the markdown if given, else the plain text), the emoji if given and the
\* code block if given, in that order; with the handle in place and the group
\* resolved that document is sent, once, as the last call.
C13_PostDocumentLines ==
    /\ Done("send_feishu_rich_message") =>
          \A i \in 1..Len(calls) :
              calls[i].op \in PostOps => calls[i].body = ExpectedRichDocument
    /\ Done("send_meeting_summary") =>
          /\ \A i \in 1..Len(calls) :
                calls[i].op \in PostOps =>
                    /\ calls[i].op = "send_post_to_chat"
                    /\ calls[i].body = ExpectedSummaryDocument
          /\ (bot = "Bot" /\ collab.chats # <<>>) =>
                /\ Len(CallsOf(PostOps)) = 1
                /\ calls[Len(calls)].op = "send_post_to_chat"

C13_Witness ==
    /\ Done("send_meeting_summary") /\ Invoked("send_post_to_chat")
    /\ args.attendees = <<"Bob", "Alice">> /\ AllResolve(args.attendees)
    /\ args.add_markdown # "" /\ args.add_emoji # "" /\ args.add_code_block # <<>>

C13_RichWitness ==
    /\ Done("send_feishu_rich_message") /\ Invoked("send_post_to_chat")
    /\ Len(args.content_elements) = 2
    /\ args.content_elements[1].type = "at_user" /\ ~Resolves("Alice")
    /\ args.content_elements[2].type = "sticker"

-----------------------------------------------------------------------------
(* send_multimedia_message: what a call is meant to do for each medium *)

Requested(medium) == args.paths[medium] # ""
UploadGaveKey(medium) == collab.keys[medium] \notin {"", "None"}

ExpectedMediaUpload(medium) ==
    [op |-> IF medium = "image" THEN "upload_image" ELSE "upload_file",
     target |-> args.paths[medium],
     body |-> CASE medium = "image" -> <<>>
                [] medium = "audio" -> << <<"opus">> >>
                [] medium = "video" -> << <<"mp4">> >>
                [] medium = "file" -> << <<"stream">> >>]

ExpectedMediaSend(medium) ==
    [op |-> CASE medium = "image" -> "send_image_to_chat"
              [] medium = "audio" -> "send_audio_to_chat"
              [] medium = "video" -> "send_media_to_chat"
              [] medium = "file" -> "send_file_to_chat",
     target |-> collab.chats[1],
     body |-> << <<collab.keys[medium]>> >>]

ExpectedMediaEntry(medium) ==
    IF UploadGaveKey(medium) THEN SentDict(collab.sends[medium])
    ELSE CASE medium = "image" -> ErrorDict("Image upload failed")
           [] medium = "audio" -> ErrorDict("Audio upload failed")
           [] medium = "video" -> ErrorDict("Video upload failed")
           [] medium = "file" -> ErrorDict("File upload failed")

\* the calls of one medium: nothing, the upload, or the upload and the send
ExpectedCallsOf(medium) ==
    IF ~Requested(medium) THEN <<>>
    ELSE IF UploadGaveKey(medium)
    THEN << ExpectedMediaUpload(medium), ExpectedMediaSend(medium) >>
    ELSE << ExpectedMediaUpload(medium) >>

ExpectedTextCalls ==
    IF args.message # <<>>
    THEN << [op |-> "send_text_to_chat", target |-> collab.chats[1],
             body |-> args.message] >>
    ELSE <<>>

ExpectedMultimediaCalls ==
    ExpectedTextCalls \o ExpectedCallsOf("image") \o ExpectedCallsOf("audio")
        \o ExpectedCallsOf("video") \o ExpectedCallsOf("file")

ExpectedResultKeys ==
    {m \in Media : Requested(m)}
        \cup (IF args.message # <<>> THEN {"message"} ELSE {})

-----------------------------------------------------------------------------
(* The storage facade, mcp-oss-manager/server.py.  It is a server of its own:  *)
(* there the module-level `bot` is an OssBot and the state of the facade is    *)
(* its field `manager`, which the variable bot holds: "None" or "Mgr".         *)
(* OssBot() fills the field when the module is loaded; every tool tests it     *)
(* again, so the field is an input of each tool and both values are drawn.     *)

\* the pass-through tools, each with the arguments it hands on
OssToolArgs ==
    [download_file |-> {<<"k", "None">>, <<"d/k", "/tmp">>},
     download_files_with_prefix |-> {<<"d/", "None">>, <<"d/", "/tmp">>},
     list_all_keys |-> {<<"True">>, <<"False">>},
     list_keys_with_prefix |-> {<<"d/", "True">>, <<"d/", "False">>},
     upload_file |-> {<<"k", "/tmp/f">>, <<"d/k", "/tmp/f">>},
     upload_text |-> {<<"k", "text">>, <<"k", "">>},
     delete_file |-> {<<"k">>, <<"d/k">>},
     delete_files_with_prefix |-> {<<"d/">>, <<"">>},
     upload_directory |-> {<<"/tmp/d", "">>, <<"/tmp/d", "d/">>},
     download_directory |-> {<<"d/", "/tmp/d">>, <<"", "/tmp/d">>},
     list_directory_contents |-> {<<"d/", "True">>, <<"d/", "False">>}]
OssPassThroughTools == DOMAIN OssToolArgs
OssUploadImageArgs == {<<"k", "/tmp/i.png">>}
OssTools == OssPassThroughTools \cup {"upload_image"}

\* what the storage collaborator does with a call: a value, or a fault
OssAnswers == {"True", "False", "raise"}
\* cv2.imread: an image, or None when the file does not decode
ImreadAnswers == {"image", "None"}

OssReturn(answer) ==
    IF answer = "raise" THEN Fault("CollabError") ELSE Dict("returned", answer, "")

\* the message of the ValueError a tool raises when the manager is absent
OssNotInitialized(tool) ==
    IF tool = "download_file" THEN Fault("ValueError: OSS connection not initialized")
    ELSE Fault("ValueError: initialize the OSS connection first")
OssCannotReadImage == Fault("ValueError: cannot read image file")

\* a guard that lets an absent manager through
oss_guard_missing(f) == FALSE

\* `if not bot.manager`
oss_guard(f) == f.bot = "None"

\* bot.manager.<tool>(...)
ManagerCall(f, call, answer) ==
    IF f.bot = "None"
    THEN Frame(f.bot, f.calls, Fault("AttributeError"))
    ELSE Frame(f.bot, Append(f.calls, call), OssReturn(answer))

\* each of the eleven tools that test the manager and hand their arguments on
oss_pass_through(f, W, tool, a) ==
    IF oss_guard(f) THEN Frame(f.bot, f.calls, OssNotInitialized(tool))
    ELSE ManagerCall(f, Call(tool, "", <<a>>), W.answer)

oss_upload_image(f, W, a) ==
    IF oss_guard(f) THEN Frame(f.bot, f.calls, OssNotInitialized("upload_image"))
    ELSE IF W.image = "None" THEN Frame(f.bot, f.calls, OssCannotReadImage)
    ELSE ManagerCall(f, Call("upload_image", "", << <<a[1], W.image>> >>), W.answer)

OssInit ==
    /\ bot \in {"None", "Mgr"}
    /\ env = FALSE
    /\ pc = "idle"
    /\ op = "none"
    /\ args = [tool |-> "none"]
    /\ collab = QuietWorld
    /\ calls = <<>>
    /\ result = NoResult

OssPassThrough ==
    /\ pc = "idle"
    /\ \E tool \in OssPassThroughTools, answer \in OssAnswers :
        \E a \in OssToolArgs[tool] :
            LET W == [answer |-> answer, image |-> "None"]
            IN  Ends(tool, [a |-> a, manager |-> bot], W, oss_pass_through(Idle, W, tool, a))

OssUploadImage ==
    /\ pc = "idle"
    /\ \E a \in OssUploadImageArgs, answer \in OssAnswers, image \in ImreadAnswers :
        LET W == [answer |-> answer, image |-> image]
        IN  Ends("upload_image", [a |-> a, manager |-> bot], W, oss_upload_image(Idle, W, a))

OssNext ==
    \/ OssPassThrough
    \/ OssUploadImage
    \/ Respond

OssSpec == OssInit /\ [][OssNext]_vars

OssDone == pc = "done" /\ op \in OssTools

\* C12 (as claimed): a tool of the storage facade called while the manager is
\* absent fails with the not-initialised error, invokes nothing on the
\* collaborator and leaves the manager as it was; called while the manager is
\* present it makes exactly one call on the collaborator and ends with what
\* that call gave.
C12_FacadeGuardAndDelegate ==
    OssDone =>
        /\ bot = args.manager
        /\ args.manager = "None" =>
              /\ result = OssNotInitialized(op)
              /\ calls = <<>>
        /\ args.manager = "Mgr" =>
              /\ Len(calls) = 1 /\ calls[1].op = op
              /\ result = OssReturn(collab.answer)

\* C12 (amended): as above, except that upload_image with the manager present
\* and an image file that does not decode fails with the cannot-read error and
\* invokes nothing on the collaborator; upload_image hands on the key and the
\* decoded image, the other tools their own arguments.
C12_FacadeGuardAndDelegateAmended ==
    OssDone =>
        /\ bot = args.manager
        /\ args.manager = "None" =>
              /\ result = OssNotInitialized(op)
              /\ calls = <<>>
        /\ (args.manager = "Mgr" /\ op = "upload_image" /\ collab.image = "None") =>
              /\ result = OssCannotReadImage
              /\ calls = <<>>
        /\ (args.manager = "Mgr" /\ op = "upload_image" /\ collab.image # "None") =>
              /\ calls = << Call(op, "", << <<args.a[1], collab.image>> >>) >>
              /\ result = OssReturn(collab.answer)
        /\ (args.manager = "Mgr" /\ op # "upload_image") =>
              /\ calls = << Call(op, "", <<args.a>>) >>
              /\ result = OssReturn(collab.answer)

C12_Witness ==
    /\ pc = "done" /\ op = "upload_image" /\ args.manager = "Mgr"
    /\ collab.image = "None" /\ calls = <<>>
    /\ result = OssCannotReadImage

====
